---- MODULE Spec2Model ----
(***************************************************************************)
(* A model of the batching Kinesis producer of src/kinesis.go: the bounded  *)
(* records channel, Put, Start, Stop, the select loop of Producer.loop and  *)
(* the recursive Producer.flush with its backoff.                           *)
(*                                                                          *)
(* Byte strings are modelled by their lengths (the code only measures       *)
(* them) and a record by its lengths plus an identity, the ordinal of the   *)
(* Put call that made it.                                                   *)
(***************************************************************************)
EXTENDS Integers, Sequences, FiniteSets, TLC

\* ------------------------------------------------------------ constants
megaByte == 1048576
maxRecordSize == megaByte
maxRequestSize == 5 * megaByte

\* ------------------------------------------------------------ bounds
\* Spec: Put callers that may be inside Put at once, Put calls, and
\* PutRecords answers other than a clean success, per execution.
NumPutters == 2
MaxPuts == 3
MaxFails == 1
\* SpecRetry: the same, for the executions that exercise the retries.
RetryPutters == 1
RetryPuts == 3
RetryFails == 2
\* SpecBackoff: the same, for the executions that escalate the backoff.
BackoffPutters == 1
BackoffPuts == 2
BackoffFails == 3
\* SpecSize: the same, for the executions that fill a request to
\* maxRequestSize.
SizePutters == 1
SizePuts == 2
SizeFails == 1
\* SpecSize: the records of maxRecordSize the loop has already received
\* into buf when the execution starts.
Prefilled == 4

\* ------------------------------------------------------------ state
VARIABLES
    config,        \* Producer.Config: BufferSize, BacklogSize, len(Separator)
    limits,        \* what the environment does in this execution
    records,       \* the contents of the channel p.records
    closed,        \* close(p.records) has run
    sending,       \* entries of Put calls at the send p.records <- entry
    lastPut,       \* the Put call that returned last, and its error
    stopPc,        \* where Stop is
    pc,            \* where loop is
    buf,           \* loop's buf
    bufSize,       \* loop's bufSize
    drain,         \* loop's drain
    flushRecords,  \* the records argument of the running flush call
    reason,        \* the reason argument of the running flush call
    site,          \* the flush call of loop that is running: its reason
    cur,           \* loop's record, held while the request-size flush runs
    attempt,       \* the attempt counter of p.Backoff
    panicked,      \* the process has panicked
    calls,         \* every Client.PutRecords call so far, with its answer
    dequeued,      \* every record loop received, in order
    accepted,      \* every record whose Put returned nil, in order
    nPuts,         \* Put calls so far
    nFails,        \* PutRecords answers so far that were not a clean success
    putLate        \* some Put call overlapped or followed the Stop call

vars == <<config, limits, records, closed, sending, lastPut, stopPc, pc, buf,
          bufSize, drain, flushRecords, reason, site, cur, attempt, panicked,
          calls, dequeued, accepted, nPuts, nFails, putLate>>

loopVars == <<pc, buf, bufSize, flushRecords, reason, site, cur>>

NoRecord == [id |-> 0, Data |-> 0, PartitionKey |-> 0]

\* ------------------------------------------------------------ helpers
RECURSIVE SumSizes(_)
\* len(*record.PartitionKey) + len(record.Data)
RecordSize(record) == record.PartitionKey + record.Data

SumSizes(s) == IF s = <<>> THEN 0 ELSE RecordSize(Head(s)) + SumSizes(Tail(s))

RECURSIVE Concat(_)
Concat(ss) == IF ss = <<>> THEN <<>> ELSE Head(ss) \o Concat(Tail(ss))

Last(s) == s[Len(s)]

IsPrefix(s, t) == Len(s) <= Len(t) /\ SubSeq(t, 1, Len(s)) = s

\* The configurations New is given, after config.defaults(): BufferSize and
\* BacklogSize are positive.
Configs(bufferSizes, backlogSizes) ==
    {[BufferSize |-> b, BacklogSize |-> q, Separator |-> 1] :
        b \in bufferSizes, q \in backlogSizes}

\* The data lengths Put is called with: a small record, one that with a
\* one-byte key and the one-byte separator is exactly maxRecordSize, and one
\* that is one byte over.
SmallLen == 1
ExactLen == maxRecordSize - 2
OverLen == maxRecordSize - 1
KeyLens == {1}

\* ------------------------------------------------------------ New, Start
\* The state after New and Start: the channel is empty and the loop is at
\* its select with an empty buf.
InitWith(cfgs, lim) ==
    /\ config \in cfgs
    /\ limits = lim
    /\ records = <<>>
    /\ closed = FALSE
    /\ sending = {}
    /\ lastPut = [id |-> 0, err |-> "none"]
    /\ stopPc = "idle"
    /\ pc = "select"
    /\ buf = <<>>
    /\ bufSize = 0
    /\ drain = FALSE
    /\ flushRecords = <<>>
    /\ reason = "none"
    /\ site = "none"
    /\ cur = NoRecord
    /\ attempt = 0
    /\ panicked = FALSE
    /\ calls = <<>>
    /\ dequeued = <<>>
    /\ accepted = <<>>
    /\ nPuts = 0
    /\ nFails = 0
    /\ putLate = FALSE

\* Concurrent callers, records of exactly maxRecordSize and oversized ones,
\* one failed answer; a queue one record shorter than a full batch.
Init ==
    InitWith({c \in Configs(2..MaxPuts, 1..MaxPuts) :
                 c.BacklogSize = c.BufferSize - 1},
             [putters |-> NumPutters, puts |-> MaxPuts, fails |-> MaxFails,
              lens |-> {ExactLen, OverLen}])

\* One caller, batches of up to RetryPuts records, repeated failed answers.
InitRetry ==
    InitWith(Configs({RetryPuts}, {1}),
             [putters |-> RetryPutters, puts |-> RetryPuts,
              fails |-> RetryFails, lens |-> {SmallLen}])

\* One caller, batches of up to two records, failed answers enough to
\* escalate the backoff before a success and to fail again after it.
InitBackoff ==
    InitWith(Configs({2}, {1}),
             [putters |-> BackoffPutters, puts |-> BackoffPuts,
              fails |-> BackoffFails, lens |-> {SmallLen}])

\* The entry of the id-th Put call, of exactly maxRecordSize.
FullRecord(id) == [id |-> id, Data |-> ExactLen + 1, PartitionKey |-> 1]

\* One caller, records of maxRecordSize. The execution starts where Prefilled
\* Put calls have returned nil and the started loop has received their
\* records: buf holds them, and nothing was flushed yet. The next records
\* reach BufferSize or overflow maxRequestSize.
InitSize ==
    /\ config \in Configs({Prefilled + 1, Prefilled + SizePuts}, {1})
    /\ limits = [putters |-> SizePutters, puts |-> Prefilled + SizePuts,
                 fails |-> SizeFails, lens |-> {ExactLen}]
    /\ records = <<>>
    /\ closed = FALSE
    /\ sending = {}
    /\ lastPut = [id |-> Prefilled, err |-> "nil"]
    /\ stopPc = "idle"
    /\ pc = "select"
    /\ buf = [i \in 1..Prefilled |-> FullRecord(i)]
    /\ bufSize = Prefilled * maxRecordSize
    /\ drain = FALSE
    /\ flushRecords = <<>>
    /\ reason = "none"
    /\ site = "none"
    /\ cur = NoRecord
    /\ attempt = 0
    /\ panicked = FALSE
    /\ calls = <<>>
    /\ dequeued = [i \in 1..Prefilled |-> FullRecord(i)]
    /\ accepted = [i \in 1..Prefilled |-> FullRecord(i)]
    /\ nPuts = Prefilled
    /\ nFails = 0
    /\ putLate = FALSE

\* ------------------------------------------------------------ Put
\* The size test without the separator.
SizeExceededNoSeparator(data, partitionKey) ==
    data + partitionKey > maxRecordSize

\* The size test of Put, on the lengths of data and partitionKey.
SizeExceeded(data, partitionKey) ==
    data + partitionKey + config.Separator > maxRecordSize

\* The entry Put builds: Data is append(data, Separator...).
Entry(id, data, partitionKey) ==
    [id |-> id, Data |-> data + config.Separator, PartitionKey |-> partitionKey]

\* Put up to its return with ErrRecordSizeExceeded or to its channel send.
PutCall(data, partitionKey) ==
    /\ ~panicked
    /\ nPuts < limits.puts
    /\ Cardinality(sending) < limits.putters
    /\ nPuts' = nPuts + 1
    /\ putLate' = (putLate \/ stopPc # "idle")
    /\ IF SizeExceeded(data, partitionKey)
       THEN /\ lastPut' = [id |-> nPuts + 1, err |-> "ErrRecordSizeExceeded"]
            /\ UNCHANGED sending
       ELSE /\ sending' = sending \cup {Entry(nPuts + 1, data, partitionKey)}
            /\ UNCHANGED lastPut
    /\ UNCHANGED <<config, limits, records, closed, stopPc, loopVars,
                   drain, attempt, panicked, calls, dequeued, accepted, nFails>>

\* The send on a channel that never blocks.
PutSendUnbounded(entry) ==
    /\ ~panicked
    /\ entry \in sending
    /\ IF closed
       THEN /\ panicked' = TRUE
            /\ UNCHANGED <<records, sending, accepted, lastPut>>
       ELSE /\ records' = Append(records, entry)
            /\ sending' = sending \ {entry}
            /\ accepted' = Append(accepted, entry)
            /\ lastPut' = [id |-> entry.id, err |-> "nil"]
            /\ UNCHANGED panicked
    /\ UNCHANGED <<config, limits, closed, stopPc, loopVars, drain, attempt,
                   calls, dequeued, nPuts, nFails, putLate>>

\* The send p.records <- entry and the return of nil. The send blocks while
\* the channel is full and panics once the channel is closed.
PutSend(entry) ==
    /\ ~panicked
    /\ entry \in sending
    /\ closed \/ Len(records) < config.BacklogSize
    /\ IF closed
       THEN /\ panicked' = TRUE
            /\ UNCHANGED <<records, sending, accepted, lastPut>>
       ELSE /\ records' = Append(records, entry)
            /\ sending' = sending \ {entry}
            /\ accepted' = Append(accepted, entry)
            /\ lastPut' = [id |-> entry.id, err |-> "nil"]
            /\ UNCHANGED panicked
    /\ UNCHANGED <<config, limits, closed, stopPc, loopVars, drain, attempt,
                   calls, dequeued, nPuts, nFails, putLate>>

\* ------------------------------------------------------------ Stop
\* Stop is called: it logs the backlog and reaches the send on p.done.
StopCall ==
    /\ ~panicked
    /\ stopPc = "idle"
    /\ stopPc' = "send"
    /\ putLate' = (putLate \/ sending # {})
    /\ UNCHANGED <<config, limits, records, closed, sending, lastPut, loopVars,
                   drain, attempt, panicked, calls, dequeued, accepted, nPuts,
                   nFails>>

\* close(p.records)
StopClose ==
    /\ ~panicked
    /\ stopPc = "close"
    /\ closed' = TRUE
    /\ stopPc' = "wait"
    /\ UNCHANGED <<config, limits, records, sending, lastPut, loopVars, drain,
                   attempt, panicked, calls, dequeued, accepted, nPuts, nFails,
                   putLate>>

\* <-p.done, which the loop's deferred close(p.done) releases; Stop returns.
StopWait ==
    /\ ~panicked
    /\ stopPc = "wait"
    /\ pc = "exited"
    /\ stopPc' = "returned"
    /\ UNCHANGED <<config, limits, records, closed, sending, lastPut, loopVars,
                   drain, attempt, panicked, calls, dequeued, accepted, nPuts,
                   nFails, putLate>>

\* ------------------------------------------------------------ Backoff
\* The policy p.Backoff: Duration() grows with the attempt counter up to a
\* ceiling and advances the counter; Reset() clears the counter.
BackoffBase == 1
BackoffCeiling == 4

RECURSIVE Pow2(_)
Pow2(n) == IF n = 0 THEN 1 ELSE 2 * Pow2(n - 1)

Duration(a) ==
    IF BackoffBase * Pow2(a) > BackoffCeiling THEN BackoffCeiling
    ELSE BackoffBase * Pow2(a)

Reset == 0

\* backoff that takes Duration() twice.
backoffTwice(failed) == [attempt |-> attempt + 2, slept |-> Duration(attempt + 1)]

\* backoff that scales the duration by the number of failures.
backoffProportional(failed) ==
    [attempt |-> attempt + 1, slept |-> failed * Duration(attempt)]

\* backoff(failed): Duration() is taken (and slept); failed is only logged.
backoff(failed) == [attempt |-> attempt + 1, slept |-> Duration(attempt)]

\* ------------------------------------------------------------ flush
\* What Client.PutRecords may answer to a request of n records: a transport
\* error, or an output with a FailedRecordCount and, per position, an entry
\* that carries an ErrorCode or not (codes: the positions that carry one).
\* The output has one entry per record of the request. The count an answer
\* reports need not be the number of its error codes: an answer may report a
\* failure without any error code.
Answers(n) ==
    {[kind |-> "err", failed |-> 0, codes |-> {}],
     [kind |-> "out", failed |-> 1, codes |-> {}]}
    \cup {[kind |-> "out", failed |-> Cardinality(S), codes |-> S] :
            S \in SUBSET (1..n)}

CleanSuccess == [kind |-> "out", failed |-> 0, codes |-> {}]

RECURSIVE FailuresFrom(_, _, _)
FailuresFrom(recs, codes, i) ==
    IF i > Len(recs) THEN <<>>
    ELSE (IF i \in codes THEN <<recs[i]>> ELSE <<>>)
         \o FailuresFrom(recs, codes, i + 1)

\* failures that returns the records the response accepted.
failuresInverted(recs, codes) == FailuresFrom(recs, (1..Len(recs)) \ codes, 1)

\* failures(records, response): the records at the positions whose response
\* entry has an ErrorCode.
failures(recs, codes) == FailuresFrom(recs, codes, 1)

\* flush that gives up on a transport error instead of retrying.
flushGivesUp(recs, ans) ==
    IF ans.kind = "err"
    THEN [done |-> TRUE, records |-> <<>>, reason |-> "none",
          attempt |-> backoff(Len(recs)).attempt,
          slept |-> backoff(Len(recs)).slept]
    ELSE IF ans.failed = 0
    THEN [done |-> TRUE, records |-> <<>>, reason |-> "none",
          attempt |-> Reset, slept |-> 0]
    ELSE [done |-> FALSE, records |-> failures(recs, ans.codes),
          reason |-> "retry",
          attempt |-> backoff(ans.failed).attempt,
          slept |-> backoff(ans.failed).slept]

\* flush that does not reset the backoff on success.
flushNoReset(recs, ans) ==
    IF ans.kind = "err"
    THEN [done |-> FALSE, records |-> recs, reason |-> "error",
          attempt |-> backoff(Len(recs)).attempt,
          slept |-> backoff(Len(recs)).slept]
    ELSE IF ans.failed = 0
    THEN [done |-> TRUE, records |-> <<>>, reason |-> "none",
          attempt |-> attempt, slept |-> 0]
    ELSE [done |-> FALSE, records |-> failures(recs, ans.codes),
          reason |-> "retry",
          attempt |-> backoff(ans.failed).attempt,
          slept |-> backoff(ans.failed).slept]

\* flush that retries the whole batch after a partial failure.
flushRetriesAll(recs, ans) ==
    IF ans.kind = "err"
    THEN [done |-> FALSE, records |-> recs, reason |-> "error",
          attempt |-> backoff(Len(recs)).attempt,
          slept |-> backoff(Len(recs)).slept]
    ELSE IF ans.failed = 0
    THEN [done |-> TRUE, records |-> <<>>, reason |-> "none",
          attempt |-> Reset, slept |-> 0]
    ELSE [done |-> FALSE, records |-> recs, reason |-> "retry",
          attempt |-> backoff(ans.failed).attempt,
          slept |-> backoff(ans.failed).slept]

\* One pass through flush with the answer ans, up to its return (done) or to
\* its recursive call: the arguments of that call, the backoff counter and
\* the time slept.
flush(recs, ans) ==
    IF ans.kind = "err"
    THEN [done |-> FALSE, records |-> recs, reason |-> "error",
          attempt |-> backoff(Len(recs)).attempt,
          slept |-> backoff(Len(recs)).slept]
    ELSE IF ans.failed = 0
    THEN [done |-> TRUE, records |-> <<>>, reason |-> "none",
          attempt |-> Reset, slept |-> 0]
    ELSE [done |-> FALSE, records |-> failures(recs, ans.codes),
          reason |-> "retry",
          attempt |-> backoff(ans.failed).attempt,
          slept |-> backoff(ans.failed).slept]

\* ------------------------------------------------------------ loop
\* The loop's own state after a piece of its body; q is the channel's
\* contents at that moment.
AtSelect(b, bs) ==
    [pc |-> "select", buf |-> b, bufSize |-> bs, flushRecords |-> <<>>,
     reason |-> "none", site |-> "none", cur |-> NoRecord]

Exited(b, bs) ==
    [pc |-> "exited", buf |-> b, bufSize |-> bs, flushRecords |-> <<>>,
     reason |-> "none", site |-> "none", cur |-> NoRecord]

InFlush(b, bs, why, record) ==
    [pc |-> "flush", buf |-> b, bufSize |-> bs, flushRecords |-> b,
     reason |-> why, site |-> why, cur |-> record]

\* The loop without the exit test after a record.
DrainCheckNoExit(b, bs, q) == AtSelect(b, bs)

\* The exit test without the drain flag.
DrainCheckAnyTime(b, bs, q) ==
    IF Len(q) = 0 THEN Exited(b, bs) ELSE AtSelect(b, bs)

\* if drain && len(p.records) == 0 { return }
DrainCheck(b, bs, q) ==
    IF drain /\ Len(q) = 0 THEN Exited(b, bs) ELSE AtSelect(b, bs)

\* if len(buf) >= p.BufferSize { flush; buf = nil; bufSize = 0 }
CountCheck(b, bs, q) ==
    IF Len(b) >= config.BufferSize
    THEN InFlush(b, bs, "buffer size", NoRecord)
    ELSE DrainCheck(b, bs, q)

\* The record put in front of buf instead of at its end.
AppendRecordFront(b, bs, record, q) ==
    CountCheck(<<record>> \o b, bs + RecordSize(record), q)

\* buf = append(buf, record); bufSize += recordSize
AppendRecord(b, bs, record, q) ==
    CountCheck(Append(b, record), bs + RecordSize(record), q)

\* The request-size test without the arriving record's size.
SizeCheckStale(b, bs, record, q) ==
    IF bs > maxRequestSize
    THEN InFlush(b, bs, "request size", record)
    ELSE AppendRecord(b, bs, record, q)

\* if bufSize+recordSize > maxRequestSize { flush; buf = nil; bufSize = 0 }
SizeCheck(b, bs, record, q) ==
    IF bs + RecordSize(record) > maxRequestSize
    THEN InFlush(b, bs, "request size", record)
    ELSE AppendRecord(b, bs, record, q)

\* The loop that drops the arriving record after the request-size flush.
AfterFlushDropsRecord(q) ==
    CASE site = "request size" -> DrainCheck(<<>>, 0, q)
      [] site = "buffer size" -> DrainCheck(<<>>, 0, q)
      [] OTHER -> AtSelect(<<>>, 0)

\* The loop that leaves bufSize as it was after a flush.
AfterFlushKeepsSize(q) ==
    CASE site = "request size" -> AppendRecord(<<>>, bufSize, cur, q)
      [] site = "buffer size" -> DrainCheck(<<>>, bufSize, q)
      [] OTHER -> AtSelect(<<>>, bufSize)

\* The loop after the flush it called has returned.
AfterFlush(q) ==
    CASE site = "request size" -> AppendRecord(<<>>, 0, cur, q)
      [] site = "buffer size" -> DrainCheck(<<>>, 0, q)
      [] OTHER -> AtSelect(<<>>, 0)

\* The tick case that flushes an empty buf too.
TickCaseAlways(b, bs) == InFlush(b, bs, "interval", NoRecord)

\* case <-tick.C
TickCase(b, bs) ==
    IF Len(b) > 0 THEN InFlush(b, bs, "interval", NoRecord) ELSE AtSelect(b, bs)

\* The done case that returns whatever the queue holds.
DoneCaseNoDrain(b, bs, q) == Exited(b, bs)

\* case <-p.done
DoneCase(b, bs, q) ==
    IF Len(q) = 0 THEN Exited(b, bs) ELSE AtSelect(b, bs)

SetLoop(l) ==
    /\ pc' = l.pc
    /\ buf' = l.buf
    /\ bufSize' = l.bufSize
    /\ flushRecords' = l.flushRecords
    /\ reason' = l.reason
    /\ site' = l.site
    /\ cur' = l.cur

\* case record := <-p.records, up to the next select, the return, or the
\* first PutRecords call. A receive from the closed and empty channel yields
\* nil, and record.PartitionKey panics.
LoopRecord ==
    /\ ~panicked
    /\ pc = "select"
    /\ records # <<>> \/ closed
    /\ IF records = <<>>
       THEN /\ panicked' = TRUE
            /\ UNCHANGED <<records, dequeued, loopVars>>
       ELSE /\ records' = Tail(records)
            /\ dequeued' = Append(dequeued, Head(records))
            /\ SetLoop(SizeCheck(buf, bufSize, Head(records), Tail(records)))
            /\ UNCHANGED panicked
    /\ UNCHANGED <<config, limits, closed, sending, lastPut, stopPc, drain,
                   attempt, calls, accepted, nPuts, nFails, putLate>>

\* case <-tick.C
LoopTick ==
    /\ ~panicked
    /\ pc = "select"
    /\ SetLoop(TickCase(buf, bufSize))
    /\ UNCHANGED <<config, limits, records, closed, sending, lastPut, stopPc,
                   drain, attempt, panicked, calls, dequeued, accepted, nPuts,
                   nFails, putLate>>

\* The done case taken while a flush is still running.
LoopDoneDuringFlush ==
    /\ ~panicked
    /\ pc \in {"select", "flush"}
    /\ stopPc = "send"
    /\ stopPc' = "close"
    /\ drain' = TRUE
    /\ IF pc = "select"
       THEN SetLoop(DoneCase(buf, bufSize, records))
       ELSE UNCHANGED loopVars
    /\ UNCHANGED <<config, limits, records, closed, sending, lastPut, attempt,
                   panicked, calls, dequeued, accepted, nPuts, nFails, putLate>>

\* case <-p.done, the rendezvous with Stop's send p.done <- struct{}{}
LoopDone ==
    /\ ~panicked
    /\ pc = "select"
    /\ stopPc = "send"
    /\ stopPc' = "close"
    /\ drain' = TRUE
    /\ SetLoop(DoneCase(buf, bufSize, records))
    /\ UNCHANGED <<config, limits, records, closed, sending, lastPut, attempt,
                   panicked, calls, dequeued, accepted, nPuts, nFails, putLate>>

\* One Client.PutRecords call of the running flush, its answer and what
\* flush does with it; when flush returns, the loop runs on to the next
\* select, return or flush.
PutRecords(ans) ==
    /\ ~panicked
    /\ pc = "flush"
    /\ ans = CleanSuccess \/ nFails < limits.fails
    /\ nFails' = IF ans = CleanSuccess THEN nFails ELSE nFails + 1
    /\ LET f == flush(flushRecords, ans) IN
        /\ calls' = Append(calls, [records |-> flushRecords, reason |-> reason,
                                   kind |-> ans.kind, failed |-> ans.failed,
                                   codes |-> ans.codes, slept |-> f.slept])
        /\ attempt' = f.attempt
        /\ IF f.done
           THEN SetLoop(AfterFlush(records))
           ELSE /\ flushRecords' = f.records
                /\ reason' = f.reason
                /\ UNCHANGED <<pc, buf, bufSize, site, cur>>
    /\ UNCHANGED <<config, limits, records, closed, sending, lastPut, stopPc,
                   drain, panicked, dequeued, accepted, nPuts, putLate>>

\* ------------------------------------------------------------ the program
Next ==
    \/ \E d \in limits.lens, k \in KeyLens : PutCall(d, k)
    \/ \E e \in sending : PutSend(e)
    \/ StopCall
    \/ StopClose
    \/ StopWait
    \/ LoopRecord
    \/ LoopTick
    \/ LoopDone
    \/ \E a \in Answers(Len(flushRecords)) : PutRecords(a)

Spec == Init /\ [][Next]_vars

SpecRetry == InitRetry /\ [][Next]_vars

SpecBackoff == InitBackoff /\ [][Next]_vars

SpecSize == InitSize /\ [][Next]_vars


\* ------------------------------------------------------------ properties
Range(s) == {s[i] : i \in 1..Len(s)}

\* The calls that are not retries: the flush calls the loop makes.
IsFirst(c) == c.reason \notin {"error", "retry"}

IsSuccess(c) == c.kind = "out" /\ c.failed = 0

FirstCalls == SelectSeq(calls, IsFirst)

Batches(cs) == [i \in 1..Len(cs) |-> cs[i].records]

Submitted == UNION {Range(calls[i].records) : i \in 1..Len(calls)}

\* The records argument of the call after the i-th: the next call made, or
\* the one the running flush is about to make.
NextRecords(i) == IF i < Len(calls) THEN calls[i + 1].records ELSE flushRecords

RECURSIVE Chunks(_, _)
Chunks(s, n) ==
    IF Len(s) < n THEN (IF s = <<>> THEN <<>> ELSE <<s>>)
    ELSE <<SubSeq(s, 1, n)>> \o Chunks(SubSeq(s, n + 1, Len(s)), n)

RECURSIVE FullChunks(_, _)
FullChunks(s, n) ==
    IF Len(s) < n THEN <<>>
    ELSE <<SubSeq(s, 1, n)>> \o FullChunks(SubSeq(s, n + 1, Len(s)), n)

RECURSIVE Ascending(_)
Ascending(S) ==
    IF S = {} THEN <<>>
    ELSE LET m == CHOOSE x \in S : \A y \in S : x <= y
         IN <<m>> \o Ascending(S \ {m})

\* The records of recs at the positions in codes, in their order in recs.
Picked(recs, codes) ==
    LET at == Ascending(codes \cap (1..Len(recs)))
    IN [j \in 1..Len(at) |-> recs[at[j]]]

\* Stop has returned, and every Put call had returned before Stop was called.
StoppedAfterPuts == stopPc = "returned" /\ ~putLate

\* C1: once Stop has returned (every Put having returned nil before Stop was
\* called), every accepted record has been in a batch passed to PutRecords.
C1_NoLoss ==
    StoppedAfterPuts => \A i \in 1..Len(accepted) : accepted[i] \in Submitted

\* C2: with no interval flush and no failed answer, once Stop has returned
\* the PutRecords calls are the floor(k/N) batches of N records each, in
\* order, followed by one batch of the k mod N remaining records if any.
C2_CountThenDrain ==
    (/\ StoppedAfterPuts
     /\ nFails = 0
     /\ \A i \in 1..Len(calls) : calls[i].reason # "interval")
    => Batches(calls) = Chunks(accepted, config.BufferSize)

\* What the code does in the executions of C2: the full batches only.
C2_FullBatchesOnly ==
    (/\ StoppedAfterPuts
     /\ nFails = 0
     /\ \A i \in 1..Len(calls) : calls[i].reason # "interval")
    => Batches(calls) = FullChunks(accepted, config.BufferSize)

\* C3: a Put whose len(data) + len(partitionKey) + len(separator) exceeds
\* maxRecordSize returns ErrRecordSizeExceeded and leaves the queue (and the
\* pending sends) unchanged; any other Put, one of exactly maxRecordSize
\* included, goes on to send its entry; and every record in the queue is
\* within maxRecordSize.
C3_PutStep ==
    \A d \in limits.lens, k \in KeyLens :
        PutCall(d, k) =>
            IF d + k + config.Separator > maxRecordSize
            THEN /\ lastPut' = [id |-> nPuts', err |-> "ErrRecordSizeExceeded"]
                 /\ records' = records
                 /\ sending' = sending
            ELSE /\ lastPut' = lastPut
                 /\ \E e \in sending' \ sending :
                        /\ e.Data = d + config.Separator
                        /\ e.PartitionKey = k

C3_QueueWithinSize ==
    \A r \in Range(records) \cup sending \cup Range(accepted) :
        r.Data + r.PartitionKey <= maxRecordSize

C3_SizeLimit == [](C3_QueueWithinSize) /\ [][C3_PutStep]_vars

\* C3 witness: a record of exactly maxRecordSize was accepted and a later Put
\* returned ErrRecordSizeExceeded.
C3_Witness ==
    /\ lastPut.err = "ErrRecordSizeExceeded"
    /\ \E r \in Range(accepted) : r.Data + r.PartitionKey = maxRecordSize

\* C4: every batch passed to PutRecords, first submission or retry, and the
\* batch the running flush is about to pass, is at most maxRequestSize bytes
\* and at most BufferSize records.
C4_BatchLimits ==
    /\ \A i \in 1..Len(calls) :
        /\ SumSizes(calls[i].records) <= maxRequestSize
        /\ Len(calls[i].records) <= config.BufferSize
    /\ pc = "flush" =>
        /\ SumSizes(flushRecords) <= maxRequestSize
        /\ Len(flushRecords) <= config.BufferSize

\* C4 witness: a request-size flush of exactly maxRequestSize bytes, retried.
C4_Witness ==
    /\ Len(calls) >= 2
    /\ calls[1].reason = "request size"
    /\ SumSizes(calls[1].records) = maxRequestSize
    /\ calls[2].reason = "retry"
    /\ calls[2].records # <<>>


\* C5: after a PutRecords answer that reports N > 0 failures, the very next
\* call is made with exactly the records whose response entries carry an
\* error code, unchanged and in their original order; they are N records
\* when the answer's count is the number of its error codes.
C5_RetryNarrowing ==
    \A i \in 1..Len(calls) :
        (calls[i].kind = "out" /\ calls[i].failed > 0) =>
            /\ i = Len(calls) => pc = "flush"
            /\ NextRecords(i) = Picked(calls[i].records, calls[i].codes)
            /\ calls[i].failed = Cardinality(calls[i].codes)
                => Len(NextRecords(i)) = calls[i].failed
            /\ i < Len(calls) => calls[i + 1].reason = "retry"

\* C5 witness: a 3-record batch answered with one failure, at index 1, and
\* followed by a call with that record alone.
C5_Witness ==
    \E i \in 1..Len(calls) :
        /\ i < Len(calls)
        /\ Len(calls[i].records) = 3
        /\ calls[i].kind = "out"
        /\ calls[i].failed = 1
        /\ calls[i].codes = {2}
        /\ calls[i + 1].records = <<calls[i].records[2]>>

\* C6: after a transport error the very next call is made with the identical
\* batch, however many errors came before; a flush has returned only if the
\* last answer reported zero failures, and the loop starts a flush only
\* after the one before returned so.
C6_TransportRetry ==
    /\ \A i \in 1..Len(calls) :
        /\ calls[i].kind = "err" =>
            /\ i = Len(calls) => pc = "flush"
            /\ NextRecords(i) = calls[i].records
            /\ i < Len(calls) => calls[i + 1].reason = "error"
        /\ (i > 1 /\ IsFirst(calls[i])) => IsSuccess(calls[i - 1])
    /\ (pc # "flush" /\ calls # <<>>) => IsSuccess(Last(calls))

\* C6 witness: two consecutive transport errors on a batch of several
\* records, each followed by the same batch, and then the success.
C6_Witness ==
    /\ Len(calls) >= 3
    /\ Len(calls[1].records) >= 2
    /\ calls[1].kind = "err"
    /\ calls[2].kind = "err"
    /\ calls[2].records = calls[1].records
    /\ calls[3].records = calls[1].records
    /\ IsSuccess(calls[3])
    /\ pc # "flush"

\* C7: after an answer that reports zero failures the attempt counter is at
\* baseline, so the failure that follows it next, in whatever flush, sleeps
\* the baseline Duration.
C7_BackoffReset ==
    /\ (calls # <<>> /\ IsSuccess(Last(calls))) => attempt = 0
    /\ \A i \in 2..Len(calls) :
        (IsSuccess(calls[i - 1]) /\ ~IsSuccess(calls[i]))
            => calls[i].slept = BackoffBase

\* C7 witness: a failure that slept more than the baseline, then a success,
\* then a failure that slept the baseline.
C7_Witness ==
    \E i \in 1..Len(calls), j \in 1..Len(calls) :
        /\ i < j
        /\ j < Len(calls)
        /\ calls[i].slept > BackoffBase
        /\ IsSuccess(calls[j])
        /\ ~IsSuccess(calls[j + 1])
        /\ calls[j + 1].slept = BackoffBase

\* C8: when Stop has returned the loop has exited and the queue is closed;
\* and it is empty when no Put overlapped or followed the Stop call.
C8_StopReturn ==
    stopPc = "returned" =>
        /\ pc = "exited"
        /\ closed
        /\ ~putLate => records = <<>>

\* C8 witness: Stop returned after a Stop signal that found records queued.
C8_Witness ==
    /\ StoppedAfterPuts
    /\ Len(dequeued) >= 2
    /\ buf # <<>>
    /\ calls # <<>>

\* C9: the queue never holds more than BacklogSize records; while it is at
\* capacity no Put returns nil; a record enters only where there was room;
\* and a record leaves only by the loop's receive, from the head.
C9_Bounded == Len(records) <= config.BacklogSize

C9_Step ==
    /\ Len(records) = config.BacklogSize => accepted' = accepted
    /\ accepted' # accepted =>
        /\ Len(records) < config.BacklogSize
        /\ \E e \in sending : /\ records' = Append(records, e)
                              /\ accepted' = Append(accepted, e)
    /\ Len(records') < Len(records) =>
        /\ pc = "select"
        /\ records' = Tail(records)
        /\ dequeued' = Append(dequeued, Head(records))

C9_Backpressure == [](C9_Bounded) /\ [][C9_Step]_vars

\* C9 witness: two callers are blocked in Put on the full queue.
C9_Witness ==
    /\ Len(records) = config.BacklogSize
    /\ Cardinality(sending) = 2
    /\ ~closed

RECURSIVE IsSubSeq(_, _)
IsSubSeq(s, t) ==
    IF s = <<>> THEN TRUE
    ELSE IF t = <<>> THEN FALSE
    ELSE IF Head(s) = Head(t) THEN IsSubSeq(Tail(s), Tail(t))
    ELSE IsSubSeq(s, Tail(t))

\* C10: the batches of the first-time submissions, concatenated, are the
\* records in the order the loop received them, up to those still in buf;
\* and every retry is of records of the call just before it, so that the
\* retries of a batch lie between it and the next first-time submission.
C10_Ordering ==
    /\ IsPrefix(Concat(Batches(FirstCalls)), dequeued)
    /\ pc = "select" => dequeued = Concat(Batches(FirstCalls)) \o buf
    /\ pc = "flush" =>
        Concat(Batches(FirstCalls)) \o
            (IF IsFirst([reason |-> reason]) THEN flushRecords ELSE <<>>) \o
            (IF site = "request size" THEN <<cur>> ELSE <<>>) = dequeued
    /\ \A i \in 1..Len(calls) :
        ~IsFirst(calls[i]) =>
            /\ i > 1
            /\ ~IsSuccess(calls[i - 1])
            /\ IsSubSeq(calls[i].records, calls[i - 1].records)

\* C10 witness: two first-time batches with a retry of the first in between.
C10_Witness ==
    /\ Len(calls) >= 3
    /\ IsFirst(calls[1])
    /\ Len(calls[1].records) >= 2
    /\ calls[2].reason = "retry"
    /\ calls[2].records # <<>>
    /\ IsFirst(calls[3])

\* The records of the i-th call whose response entry carries no error code.
AcceptedAt(i) ==
    {calls[i].records[p] : p \in (1..Len(calls[i].records)) \ calls[i].codes}

\* C11: a record whose response entry carries no error code, in an answer
\* that reports a nonzero failed count, is in no later PutRecords call, nor
\* in the batch the running flush is about to pass.
C11_AcceptedNotResubmitted ==
    \A i \in 1..Len(calls) :
        (calls[i].kind = "out" /\ calls[i].failed > 0) =>
            /\ \A j \in (i + 1)..Len(calls) :
                AcceptedAt(i) \cap Range(calls[j].records) = {}
            /\ pc = "flush" => AcceptedAt(i) \cap Range(flushRecords) = {}

\* C11 witness: a 2-record batch with one rejected record, retried, and a
\* later flush of other records after it.
C11_Witness ==
    /\ Len(calls) >= 3
    /\ Len(calls[1].records) = 2
    /\ calls[1].kind = "out"
    /\ calls[1].failed = 1
    /\ calls[1].codes = {1}
    /\ calls[2].records = <<calls[1].records[1]>>
    /\ IsSuccess(calls[2])
    /\ IsFirst(calls[3])

\* C12: Stop waits for the full drain: when Stop has returned no flush is
\* unresolved (the last answer reported zero failures) and no record is left
\* in the queue or in buf, so that a capability failing on every call would
\* have kept Stop from returning while data remained.
C12_StopWaitsForDrain ==
    stopPc = "returned" =>
        /\ pc # "flush"
        /\ calls # <<>> => IsSuccess(Last(calls))
        /\ ~putLate => (records = <<>> /\ buf = <<>>)

\* The part of C12 the code keeps: Stop does not return while a flush, with
\* its retries, is unresolved, and not before the queue is empty.
C12_NoReturnDuringFlush ==
    stopPc = "returned" =>
        /\ pc = "exited"
        /\ calls # <<>> => IsSuccess(Last(calls))
        /\ ~putLate => records = <<>>

\* C13: a tick handled with a non-empty buf starts a flush of exactly buf,
\* and when that flush returns buf is empty and bufSize is 0; a tick handled
\* with an empty buf calls PutRecords with nothing and leaves buf and bufSize
\* as they are.
C13_TickStep ==
    /\ LoopTick =>
        IF buf = <<>>
        THEN /\ pc' = "select"
             /\ calls' = calls
             /\ buf' = buf
             /\ bufSize' = bufSize
        ELSE /\ pc' = "flush"
             /\ site' = "interval"
             /\ reason' = "interval"
             /\ flushRecords' = buf
    /\ (pc = "flush" /\ site = "interval" /\ pc' # "flush") =>
        /\ pc' = "select"
        /\ IsSuccess(Last(calls'))
        /\ buf' = <<>>
        /\ bufSize' = 0

C13_IntervalCalls ==
    \A i \in 1..Len(calls) :
        calls[i].reason = "interval" => calls[i].records # <<>>

C13_Tick == [](C13_IntervalCalls) /\ [][C13_TickStep]_vars

\* C13 witness: an interval flush of two records has returned and left the
\* batch empty.
C13_Witness ==
    /\ Len(calls) = 1
    /\ calls[1].reason = "interval"
    /\ Len(calls[1].records) = 2
    /\ pc = "select"
    /\ buf = <<>>
    /\ bufSize = 0

\* C14: when the record the loop receives would take bufSize over
\* maxRequestSize, the loop flushes buf without that record; when that flush
\* returns the record is the first element of the new batch (which is flushed
\* in turn if that reaches BufferSize); a buffer-size flush is of exactly
\* BufferSize records and leaves the batch empty; and at every select the
\* batch holds fewer than BufferSize records.
C14_ArrivalStep ==
    /\ (LoopRecord /\ records # <<>>
            /\ bufSize + RecordSize(Head(records)) > maxRequestSize) =>
        /\ pc' = "flush"
        /\ site' = "request size"
        /\ flushRecords' = buf
        /\ Head(records) \notin Range(flushRecords')
        /\ cur' = Head(records)
    /\ (LoopRecord /\ records # <<>>
            /\ bufSize + RecordSize(Head(records)) <= maxRequestSize) =>
        /\ site' # "request size"
        /\ buf' = Append(buf, Head(records))
    /\ (pc = "flush" /\ site = "request size" /\ calls' # calls
            /\ IsSuccess(Last(calls'))) =>
        IF config.BufferSize <= 1
        THEN /\ pc' = "flush"
             /\ site' = "buffer size"
             /\ flushRecords' = <<cur>>
        ELSE /\ pc' \in {"select", "exited"}
             /\ buf' = <<cur>>
             /\ bufSize' = RecordSize(cur)
    /\ (pc = "flush" /\ site = "buffer size" /\ pc' # "flush") =>
        /\ buf' = <<>>
        /\ bufSize' = 0

C14_BatchBelowMax ==
    /\ pc = "select" => Len(buf) < config.BufferSize
    /\ \A i \in 1..Len(calls) :
        /\ calls[i].reason = "buffer size"
            => Len(calls[i].records) = config.BufferSize
        /\ calls[i].reason = "request size"
            => (/\ calls[i].records # <<>>
                /\ Len(calls[i].records) < config.BufferSize)

C14_RecordArrival == [](C14_BatchBelowMax) /\ [][C14_ArrivalStep]_vars

\* C14 witness: a request-size flush has returned; the record that caused it
\* was not in the flushed batch and is now the only record of buf.
C14_Witness ==
    /\ Len(calls) >= 1
    /\ calls[1].reason = "request size"
    /\ IsSuccess(Last(calls))
    /\ pc = "select"
    /\ Len(buf) = 1
    /\ buf[1] \notin Range(calls[1].records)
    /\ buf[1] = Last(dequeued)

\* The assembler's lifecycle state, from the loop's position and drain flag.
Lifecycle ==
    IF pc = "exited" THEN "Stopped"
    ELSE IF drain THEN "Draining"
    ELSE "Running"

\* The step ends the handling of a record arrival: the receive itself, or
\* the return of a flush that the arrival called.
EndsArrival ==
    \/ LoopRecord
    \/ pc = "flush" /\ site \in {"request size", "buffer size"}
                    /\ calls' # calls

\* C15: the lifecycle changes only Running -> Draining (stop signal, queue
\* non-empty), Running -> Stopped (stop signal, queue empty) and Draining ->
\* Stopped (end of a record arrival that leaves the queue empty); after
\* Stopped the loop receives nothing, flushes nothing and changes nothing.
C15_LifecycleStep ==
    /\ Lifecycle' # Lifecycle =>
        \/ /\ Lifecycle = "Running"
           /\ Lifecycle' = "Draining"
           /\ LoopDone
           /\ records # <<>>
        \/ /\ Lifecycle = "Running"
           /\ Lifecycle' = "Stopped"
           /\ LoopDone
           /\ records = <<>>
        \/ /\ Lifecycle = "Draining"
           /\ Lifecycle' = "Stopped"
           /\ EndsArrival
           /\ records' = <<>>
    /\ LoopDone => Lifecycle' = (IF records = <<>> THEN "Stopped" ELSE "Draining")
    /\ Lifecycle = "Stopped" =>
        /\ UNCHANGED <<pc, buf, bufSize, drain, flushRecords, reason, site, cur>>
        /\ UNCHANGED <<dequeued, calls, attempt>>
        /\ Len(records') >= Len(records)

C15_Lifecycle == [][C15_LifecycleStep]_vars

\* C15 witness: the loop is Draining, in the flush of a record arrival.
C15_Witness ==
    /\ Lifecycle = "Draining"
    /\ pc = "flush"
    /\ site = "buffer size"
    /\ closed
    /\ records # <<>>

\* C16: while a flush is running the loop receives no record and no stop
\* signal and leaves the batch alone: the queue only grows, within its
\* capacity, a Stop that is at its signal stays there and no Stop returns,
\* and the loop's state changes only by a PutRecords call of that flush.
C16_FlushStep ==
    pc = "flush" =>
        /\ dequeued' = dequeued
        /\ drain' = drain
        /\ IsPrefix(records, records')
        /\ Len(records') <= config.BacklogSize
        /\ stopPc = "send" => stopPc' = "send"
        /\ stopPc' # "returned"
        /\ calls' = calls => UNCHANGED loopVars
        /\ pc' = "flush" =>
            /\ site' = site
            /\ buf' = buf
            /\ bufSize' = bufSize
            /\ cur' = cur

C16_FlushSynchronous == [][C16_FlushStep]_vars

\* C16 witness: in a retry of a flush, Stop waits at its signal and a caller
\* waits in Put on the full queue.
C16_Witness ==
    /\ pc = "flush"
    /\ reason \in {"error", "retry"}
    /\ stopPc = "send"
    /\ Len(records) = config.BacklogSize
    /\ sending # {}

\* The number of calls of cs that satisfy Test.
CountCalls(cs, Test(_)) == Len(SelectSeq(cs, Test))

\* The failed calls at the end of the log, since the last success.
RECURSIVE TrailingFailures(_)
TrailingFailures(cs) ==
    IF cs = <<>> \/ IsSuccess(Last(cs)) THEN 0
    ELSE 1 + TrailingFailures(SubSeq(cs, 1, Len(cs) - 1))

\* C17: each failed PutRecords call takes Duration() exactly once (the
\* attempt counter advances by one and that duration is slept) and does not
\* reset; each zero-failure call resets, and there is exactly one such call
\* per flush of the loop; and no step other than a PutRecords call changes
\* the backoff state.
C17_BackoffStep ==
    IF calls' = calls THEN attempt' = attempt
    ELSE IF IsSuccess(Last(calls'))
    THEN /\ attempt' = 0
         /\ Last(calls').slept = 0
         /\ pc' # "flush" \/ IsFirst([reason |-> reason'])
    ELSE /\ attempt' = attempt + 1
         /\ Last(calls').slept = Duration(attempt)
         /\ pc' = "flush"
         /\ ~IsFirst([reason |-> reason'])

C17_Counts ==
    /\ attempt = TrailingFailures(calls)
    /\ CountCalls(calls, IsSuccess)
        = CountCalls(calls, IsFirst)
            - (IF pc = "flush" /\ calls # <<>> /\ ~IsFirst([reason |-> reason])
               THEN 1 ELSE 0)

C17_BackoffDiscipline == [](C17_Counts) /\ [][C17_BackoffStep]_vars

\* C17 witness: a flush with a transport error and a partial failure, then
\* its one success, after which the counter is reset and the loop is back at
\* its select with a record received since.
C17_Witness ==
    /\ Len(calls) = 3
    /\ calls[1].kind = "err"
    /\ calls[2].kind = "out"
    /\ calls[2].failed = 1
    /\ calls[2].slept = Duration(1)
    /\ IsSuccess(calls[3])
    /\ attempt = 0
    /\ pc = "select"
    /\ buf # <<>>

\* The backoff attempt count in force at the i-th call: the failed calls
\* right before it, since the last success.
AttemptAt(i) == TrailingFailures(SubSeq(calls, 1, i - 1))

\* The calls answered with a structured partial failure.
PartialFailures ==
    {i \in 1..Len(calls) : calls[i].kind = "out" /\ calls[i].failed > 0}

\* C18 as stated: at the same attempt count the waits slept after two
\* structured partial failures are in the ratio of their failed counts.
C18_Proportional ==
    \A i, j \in PartialFailures :
        AttemptAt(i) = AttemptAt(j) =>
            calls[i].slept * calls[j].failed = calls[j].slept * calls[i].failed

\* C18 amended: the wait slept after a structured partial failure is the
\* policy's duration for the attempt count alone, whatever the number of
\* failed records reported.
C18_AttemptOnly ==
    \A i \in PartialFailures : calls[i].slept = Duration(AttemptAt(i))

\* C18 witness: two partial failures at the same attempt count reporting
\* different numbers of failed records.
C18_Witness ==
    \E i, j \in PartialFailures :
        /\ AttemptAt(i) = AttemptAt(j)
        /\ calls[i].failed = 1
        /\ calls[j].failed = 2
        /\ Cardinality(calls[j].codes) = 2

\* C19: the loop never receives from the closed and empty queue. The queue
\* is closed only after the stop signal was taken; from then on the loop is
\* at its select only with a record in the queue, so the receive case never
\* yields nil; and once a handled record (or the flush it caused) leaves the
\* queue empty the loop exits instead of selecting again.
C19_SelectNonEmpty ==
    /\ closed => drain
    /\ (pc = "select" /\ drain) => records # <<>>
    /\ (pc = "select" /\ closed) => Len(records) > 0

C19_DrainStep ==
    /\ (drain /\ records' = <<>> /\ dequeued' # dequeued)
           => pc' \in {"exited", "flush"}
    /\ (drain /\ records' = <<>> /\ pc = "flush" /\ pc' # "flush")
           => pc' = "exited"
    /\ (~panicked /\ panicked')
           => (sending # {} /\ ~(pc = "select" /\ records = <<>>))

C19_NoNilReceive == [](C19_SelectNonEmpty) /\ [][C19_DrainStep]_vars

\* C19 witness: Stop has closed the queue and waits, and the loop is at its
\* select with the last queued record still to receive.
C19_Witness ==
    /\ closed
    /\ drain
    /\ stopPc = "wait"
    /\ pc = "select"
    /\ Len(records) = 1
    /\ dequeued # <<>>

\* An answer whose failed count is the number of its entries that carry an
\* error code (a transport error carries no such count).
Consistent(c) == c.kind = "out" => c.failed = Cardinality(c.codes)

\* C20: as long as every answer so far was consistent, no PutRecords call
\* was made, and none is about to be made, with an empty batch, whatever the
\* reason of the flush; and bufSize is always the sum of the sizes of the
\* records in buf, 0 exactly when buf is empty.
C20_NoEmptyBatch ==
    /\ \A i \in 1..Len(calls) :
           (\A j \in 1..(i - 1) : Consistent(calls[j]))
               => calls[i].records # <<>>
    /\ (pc = "flush" /\ \A j \in 1..Len(calls) : Consistent(calls[j]))
           => flushRecords # <<>>
    /\ bufSize = SumSizes(buf)
    /\ bufSize = 0 <=> buf = <<>>

\* C20 witness: a request-size flush answered with a consistent partial
\* failure, retried with the rejected records only, while the record that
\* caused the flush waits and buf still holds the flushed batch.
C20_Witness ==
    /\ Len(calls) >= 2
    /\ calls[1].reason = "request size"
    /\ calls[1].kind = "out"
    /\ calls[1].failed = 2
    /\ Cardinality(calls[1].codes) = 2
    /\ calls[2].reason = "retry"
    /\ Len(calls[2].records) = 2
    /\ pc = "select"
    /\ buf # <<>>
    /\ bufSize = SumSizes(buf)

====
